---- MODULE Spec2Model ----
(***************************************************************************)
(* Model of the Newtonian "object on a curved surface" simulation          *)
(* (src/src/simu_newtonienne).                                             *)
(*                                                                         *)
(* Numbers.  The program works on float64.  Here every length, velocity,   *)
(* acceleration, mass and time is an integer multiple of one resolution    *)
(* unit; a quotient is truncated toward zero and a square root is rounded  *)
(* down.  The comparison r < radius is exact for an integer radius, since   *)
(* floor(sqrt(n)) < R iff sqrt(n) < R.  A surface height                   *)
(* -D * exp(-r2 / (2 S^2)) is kept exactly, as the triple                  *)
(* (coef, num, den) standing for coef * exp(-num/den) with num/den in      *)
(* lowest terms: for rational arguments two such values are equal exactly  *)
(* when their triples are equal.                                           *)
(***************************************************************************)
EXTENDS Integers, Sequences, FiniteSets, TLC

\* ---------------------------------------------------------------- bounds
MaxSteps == 3      \* largest num_steps tried
MaxPos == 2        \* largest initial coordinate tried
MaxN == 5          \* largest sample count asked of the geometry helpers
MaxCalls == 3      \* most appendData calls on one file
MaxRows == 2       \* most rows in one appendData call
MaxClicks == 2     \* most clicks on one navbar button
MaxObjCalls == 4   \* most method calls made on one MovingObject
MaxDyn == 2        \* largest coordinate and speed of a DynamicCircle
MaxTraj == 3       \* most points in one trajectory given to the parser
MaxBall == 3       \* most timed positions held by a PositionsAnalytics
MaxSpeedCalls == 3 \* most calculateSpeed calls on one PositionsAnalytics
MaxSlide == 3      \* largest steps tried in main.py
MaxPolar == 3      \* largest n tried in mrua.py

VARIABLES
    config,        \* the module-level values of config.py
    args,          \* the constructor arguments of each Simulation instance
    central_body,  \* Simulation._central_body of each instance
    surface,       \* Simulation._surface of each instance
    object,        \* Simulation._object of each instance
    i,             \* the loop variable of _run: iterations completed
    pc,            \* where each constructor call stands
    reason,        \* how the loop of _run ended
    shape,         \* a Circle or RoundSurface of gui/components/geometry
    ret,           \* the last call made on it and what it returned
    disk,          \* the file a DataWriter appends to
    expID,         \* DataWriter.expID
    log,           \* the appendData calls made so far: expID used, rows given
    n_clicks,      \* n_clicks of each navbar button
    page_store,    \* data of dcc.Store "page-store"
    page_content,  \* children of "page-content": the layout rendered
    last,          \* id of the input that last triggered compute_page_store
    probe,         \* a direct application of render_page: data and layout
    slide,         \* main.py: its module-level values and the locals of simulate
    polar          \* mrua.py: its module-level values, arrays and loop variable

simVars == <<config, args, central_body, surface, object, i, pc, reason>>
geomVars == <<shape, ret>>
csvVars == <<disk, expID, log>>
navVars == <<n_clicks, page_store, page_content, last, probe>>
scriptVars == <<slide, polar>>
vars == <<simVars, geomVars, csvVars, navVars, scriptVars>>

\* the parts a specification does not exercise stay as they are
IdleGeom == shape = "none" /\ ret = "none"
IdleCsv == disk = "none" /\ expID = 0 /\ log = <<>>
IdleScript == slide = "none" /\ polar = "none"
IdleNav ==
    /\ n_clicks = "none" /\ page_store = "none" /\ page_content = "none"
    /\ last = "none" /\ probe = "none"

ids == DOMAIN args

\* ------------------------------------------------------------ arithmetic
\* a / b for b > 0, truncated toward zero
Quot(a, b) == IF a >= 0 THEN a \div b ELSE -((-a) \div b)

\* np.sqrt on a non-negative number, rounded down
Sqrt(n) == CHOOSE r \in 0..n : r * r <= n /\ (r + 1) * (r + 1) > n

RECURSIVE GCD(_, _)
GCD(a, b) == IF b = 0 THEN a ELSE GCD(b, a % b)

\* float values a height can take
NaN == [coef |-> 0, num |-> 0, den |-> 0]
Zero == [coef |-> 0, num |-> 0, den |-> 1]

\* -depth * np.exp(-r2 / (2.0 * sigma**2)), with numpy's division by zero:
\* 0/0 is nan, -r2/0 is -inf and exp(-inf) is 0
Gauss(depth, sigma, r2) ==
    LET den == 2 * sigma * sigma
        g == GCD(r2, den)
    IN  IF den = 0
        THEN IF r2 = 0 THEN NaN ELSE Zero
        ELSE IF depth = 0 THEN Zero
        ELSE [coef |-> -depth, num |-> r2 \div g, den |-> den \div g]

\* ------------------------------------------------------------- config.py
ModuleConfigs ==
    { [gravity_constant |-> g, time_step |-> dt, num_steps |-> n,
       central_body_radius |-> 1, central_body_mass |-> 2,
       deformation_depth_scale |-> 1, deformation_sigma_scale |-> ks,
       surface_depth |-> 1 * 2, surface_sigma |-> ks * 1] :
      g \in {0, 1}, dt \in {-1, 0, 1}, n \in 0..MaxSteps, ks \in {1, 2} }

\* ------------------------------------------------------- surface_field.py
SurfaceField(k_depth, k_sigma, central_mass, central_radius, friction) ==
    [depth |-> k_depth * central_mass,
     sigma |-> k_sigma * central_radius,
     friction |-> friction]

\* the static method: reads the module constants, not the instance
\* fault variant: the y term is left out of r2
hNoY(x, y) == Gauss(config.surface_depth, config.surface_sigma, x * x)
h(x, y) == Gauss(config.surface_depth, config.surface_sigma, x * x + y * y)

\* -------------------------------------------------------- central_body.py
\* Z is the sphere lifted by the surface height at the origin; the lift is
\* what the model keeps of it
CentralBody(radius, mass) ==
    [radius |-> radius, mass |-> mass, Zlift |-> h(0, 0)]

\* ------------------------------------------------------- moving_object.py
MovingObject(x, y, vx, vy) ==
    [x |-> x, y |-> y, vx |-> vx, vy |-> vy, ax |-> 0, ay |-> 0,
     xs |-> <<>>, ys |-> <<>>, zs |-> <<>>]

\* fault variant: the acceleration passed in is stored on the object
update_velocity_stores(o, ax, ay, dt) ==
    [o EXCEPT !.vx = @ + ax * dt, !.vy = @ + ay * dt, !.ax = ax, !.ay = ay]
update_velocity(o, ax, ay, dt) ==
    [o EXCEPT !.vx = @ + ax * dt, !.vy = @ + ay * dt]

update_position(o, dt) ==
    [o EXCEPT !.x = @ + o.vx * dt, !.y = @ + o.vy * dt]

\* ----------------------------------------------------------- simulation.py
\* range(num_steps) still has a value to yield
\* fault variant: the range ends one short
LoopShort(k, n) == k + 1 < n
LoopHasNext(k, n) == k < n

\* r of line 45
\* fault variant: |x| + |y| is taken for the distance
DistanceManhattan(o) ==
    (IF o.x < 0 THEN -o.x ELSE o.x) + (IF o.y < 0 THEN -o.y ELSE o.y)
Distance(o) == Sqrt(o.x * o.x + o.y * o.y)

\* the contact test of line 46
\* fault variant: touching the body counts as contact
InContactLeq(r, radius) == r <= radius
InContact(r, radius) == r < radius

\* lines 49-55: the gravitational term at (x, y), guarded at r <= 1e-12
\* (below one resolution unit, so r = 0)
\* fault variant: the guard is far too wide (1e12 written for 1e-12)
GravityAtWide(x, y, mass) ==
    LET r == Sqrt(x * x + y * y)
        r3 == r * r * r
    IN  IF r <= 1
        THEN <<0, 0>>
        ELSE <<Quot(-(config.gravity_constant * mass * x), r3),
               Quot(-(config.gravity_constant * mass * y), r3)>>
GravityAt(x, y, mass) ==
    LET r == Sqrt(x * x + y * y)
        r3 == r * r * r
    IN  IF r <= 0
        THEN <<0, 0>>
        ELSE <<Quot(-(config.gravity_constant * mass * x), r3),
               Quot(-(config.gravity_constant * mass * y), r3)>>

\* fault variant: the position is read from one object shared by all
\* instances
GravityShared(o, body) == GravityAt(object[1].x, object[1].y, body.mass)
\* fault variant: gravity_constant is left out of the product
GravityUnscaled(o, body) ==
    LET r == Sqrt(o.x * o.x + o.y * o.y)
        r3 == r * r * r
    IN  IF r <= 0
        THEN <<0, 0>>
        ELSE <<Quot(-(body.mass * o.x), r3), Quot(-(body.mass * o.y), r3)>>
Gravity(o, body) == GravityAt(o.x, o.y, body.mass)

\* lines 56-62: set the acceleration, then velocity, then position
\* fault variant: the position is integrated before the velocity
IntegratePosFirst(o, body, surf) ==
    LET g == GravityAt(o.x, o.y, body.mass)
        o1 == [o EXCEPT !.ax = g[1] - surf.friction * o.vx,
                        !.ay = g[2] - surf.friction * o.vy]
        o2 == update_position(o1, config.time_step)
    IN  update_velocity(o2, o1.ax, o1.ay, config.time_step)
\* fault variant: update_velocity is given the acceleration of the step before
IntegrateStale(o, body, surf) ==
    LET g == GravityAt(o.x, o.y, body.mass)
        o1 == [o EXCEPT !.ax = g[1] - surf.friction * o.vx,
                        !.ay = g[2] - surf.friction * o.vy]
        o2 == update_velocity(o1, o.ax, o.ay, config.time_step)
    IN  update_position(o2, config.time_step)
Integrate(o, body, surf) ==
    LET g == Gravity(o, body)
        o1 == [o EXCEPT !.ax = g[1] - surf.friction * o.vx,
                        !.ay = g[2] - surf.friction * o.vy]
        o2 == update_velocity(o1, o1.ax, o1.ay, config.time_step)
    IN  update_position(o2, config.time_step)

\* lines 64-68: one entry appended to each history list of instance s
\* fault variant: zs is not appended to
RecordNoZ(objs, s) ==
    [objs EXCEPT ![s].xs = Append(@, objs[s].x),
                 ![s].ys = Append(@, objs[s].y)]
\* fault variant: the history lists are class attributes, shared by all
\* instances
RecordShared(objs, s) ==
    [t \in DOMAIN objs |->
        [objs[t] EXCEPT !.xs = Append(@, objs[s].x),
                        !.ys = Append(@, objs[s].y),
                        !.zs = Append(@, h(objs[s].x, objs[s].y))]]
RecordHistory(objs, s) ==
    [objs EXCEPT ![s].xs = Append(@, objs[s].x),
                 ![s].ys = Append(@, objs[s].y),
                 ![s].zs = Append(@, h(objs[s].x, objs[s].y))]

\* the arguments a constructor call may be given
XYs == (0..MaxPos) \X {0, 1}
Velocities == {-1, 0} \X {0, 1}
SimArgs ==
    { [x |-> p[1], y |-> p[2], vx |-> v[1], vy |-> v[2],
       k_depth |-> kd, k_sigma |-> ks, friction |-> f,
       body_radius |-> br, body_mass |-> bm] :
      p \in XYs, v \in Velocities, kd \in {1, 2}, ks \in {1, 2},
      f \in {0, 1}, br \in {-1, 0, 1, 2}, bm \in {1, 2} }

\* a smaller choice, for two instances side by side
PairArgs ==
    { a \in SimArgs : /\ a.y = 0 /\ a.vy = 0 /\ a.x >= 1
                      /\ a.k_depth = 1 /\ a.k_sigma = 1 /\ a.friction = 0
                      /\ a.body_radius \in {0, 2} /\ a.body_mass = 2 }

\* lines 37-39: the three objects a constructor call creates
Constructed ==
    /\ central_body =
         [s \in ids |-> CentralBody(args[s].body_radius, args[s].body_mass)]
    /\ surface =
         [s \in ids |-> SurfaceField(args[s].k_depth, args[s].k_sigma,
                                     args[s].body_mass, args[s].body_radius,
                                     args[s].friction)]
    /\ object =
         [s \in ids |-> MovingObject(args[s].x, args[s].y,
                                     args[s].vx, args[s].vy)]
    /\ i = [s \in ids |-> 0]
    /\ pc = [s \in ids |-> "run"]
    /\ reason = [s \in ids |-> "NONE"]

Init ==
    /\ config \in ModuleConfigs
    /\ args \in [{1} -> SimArgs]
    /\ Constructed
    /\ IdleGeom /\ IdleCsv /\ IdleNav /\ IdleScript

InitPair ==
    /\ config \in {c \in ModuleConfigs : c.time_step = 1 /\ c.deformation_sigma_scale = 1}
    /\ args \in [{1, 2} -> PairArgs]
    /\ Constructed
    /\ IdleGeom /\ IdleCsv /\ IdleNav /\ IdleScript

\* lines 43-68, one iteration that reaches the end of the loop body
\* fault variant: the central body is rebuilt in every iteration, lifted by
\* the height under the object
IterateRelift(s) ==
    /\ pc[s] = "run"
    /\ LoopHasNext(i[s], config.num_steps)
    /\ ~InContact(Distance(object[s]), central_body[s].radius)
    /\ object' = RecordHistory(
           [object EXCEPT ![s] = Integrate(object[s], central_body[s], surface[s])], s)
    /\ i' = [i EXCEPT ![s] = @ + 1]
    /\ central_body' =
           [central_body EXCEPT ![s].Zlift = h(object'[s].x, object'[s].y)]
    /\ UNCHANGED <<config, args, surface, pc, reason>>
    /\ UNCHANGED <<geomVars, csvVars, navVars, scriptVars>>
\* fault variant: the position is recorded before it is integrated
IterateRecordFirst(s) ==
    /\ pc[s] = "run"
    /\ LoopHasNext(i[s], config.num_steps)
    /\ ~InContact(Distance(object[s]), central_body[s].radius)
    /\ object' =
         [object EXCEPT ![s] =
            Integrate(RecordHistory(object, s)[s], central_body[s], surface[s])]
    /\ i' = [i EXCEPT ![s] = @ + 1]
    /\ UNCHANGED <<config, args, central_body, surface, pc, reason>>
    /\ UNCHANGED <<geomVars, csvVars, navVars, scriptVars>>
Iterate(s) ==
    /\ pc[s] = "run"
    /\ LoopHasNext(i[s], config.num_steps)
    /\ ~InContact(Distance(object[s]), central_body[s].radius)
    /\ object' = RecordHistory(
           [object EXCEPT ![s] = Integrate(object[s], central_body[s], surface[s])], s)
    /\ i' = [i EXCEPT ![s] = @ + 1]
    /\ UNCHANGED <<config, args, central_body, surface, pc, reason>>
    /\ UNCHANGED <<geomVars, csvVars, navVars, scriptVars>>

\* lines 45-47, the iteration that breaks out of the loop
\* fault variant: the contact test comes after the acceleration is set
BreakAfterForce(s) ==
    /\ pc[s] = "run"
    /\ LoopHasNext(i[s], config.num_steps)
    /\ InContact(Distance(object[s]), central_body[s].radius)
    /\ object' =
           [object EXCEPT
              ![s].ax = Gravity(object[s], central_body[s])[1]
                          - surface[s].friction * object[s].vx,
              ![s].ay = Gravity(object[s], central_body[s])[2]
                          - surface[s].friction * object[s].vy]
    /\ pc' = [pc EXCEPT ![s] = "plot"]
    /\ reason' = [reason EXCEPT ![s] = "CONTACT"]
    /\ UNCHANGED <<config, args, central_body, surface, i>>
    /\ UNCHANGED <<geomVars, csvVars, navVars, scriptVars>>
Break(s) ==
    /\ pc[s] = "run"
    /\ LoopHasNext(i[s], config.num_steps)
    /\ InContact(Distance(object[s]), central_body[s].radius)
    /\ pc' = [pc EXCEPT ![s] = "plot"]
    /\ reason' = [reason EXCEPT ![s] = "CONTACT"]
    /\ UNCHANGED <<config, args, central_body, surface, object, i>>
    /\ UNCHANGED <<geomVars, csvVars, navVars, scriptVars>>

\* line 43, range(num_steps) is exhausted
Exhaust(s) ==
    /\ pc[s] = "run"
    /\ ~LoopHasNext(i[s], config.num_steps)
    /\ pc' = [pc EXCEPT ![s] = "plot"]
    /\ reason' = [reason EXCEPT ![s] = "STEP_BUDGET_EXHAUSTED"]
    /\ UNCHANGED <<config, args, central_body, surface, object, i>>
    /\ UNCHANGED <<geomVars, csvVars, navVars, scriptVars>>

\* lines 69-114: _plot reads positions_history[k][0] (lines 86-88), which
\* raises IndexError on an empty list; otherwise the constructor returns
Plot(s) ==
    /\ pc[s] = "plot"
    /\ pc' = [pc EXCEPT ![s] =
                IF Len(object[s].xs) = 0 THEN "IndexError" ELSE "TERMINATED"]
    /\ UNCHANGED <<config, args, central_body, surface, object, i, reason>>
    /\ UNCHANGED <<geomVars, csvVars, navVars, scriptVars>>

Next ==
    \E s \in ids :
        \/ Iterate(s)
        \/ Break(s)
        \/ Exhaust(s)
        \/ Plot(s)

Spec == Init /\ [][Next]_vars

SpecPair == InitPair /\ [][Next]_vars

\* no Simulation is constructed
IdleSim ==
    /\ config = CHOOSE c \in ModuleConfigs : TRUE
    /\ args = <<>>
    /\ Constructed

\* ---------------------------------- moving_object.py, the methods one by one
\* a MovingObject driven by its caller: the constructed objects of Constructed
\* with no _run loop under way
ObjArgs ==
    { a \in SimArgs : /\ a.k_depth = 1 /\ a.k_sigma = 1 /\ a.friction = 0
                      /\ a.body_radius = 1 /\ a.body_mass = 1 }

Steps == {-1, 0, 1}

Accelerations == {0, 1} \X {-1, 0}

InitObj ==
    /\ config = CHOOSE c \in ModuleConfigs : TRUE
    /\ args \in [{1} -> ObjArgs]
    /\ central_body =
         [s \in ids |-> CentralBody(args[s].body_radius, args[s].body_mass)]
    /\ surface =
         [s \in ids |-> SurfaceField(args[s].k_depth, args[s].k_sigma,
                                     args[s].body_mass, args[s].body_radius,
                                     args[s].friction)]
    /\ object =
         [s \in ids |-> MovingObject(args[s].x, args[s].y,
                                     args[s].vx, args[s].vy)]
    /\ i = [s \in ids |-> 0]
    /\ pc = [s \in ids |-> "api"]
    /\ reason = [s \in ids |-> "NONE"]
    /\ IdleGeom /\ IdleCsv /\ IdleNav /\ IdleScript

\* i counts the calls made on the object
CallUpdateVelocity(s, ax, ay, dt) ==
    /\ i[s] < MaxObjCalls
    /\ object' = [object EXCEPT ![s] = update_velocity(@, ax, ay, dt)]
    /\ i' = [i EXCEPT ![s] = @ + 1]
    /\ UNCHANGED <<config, args, central_body, surface, pc, reason>>
    /\ UNCHANGED <<geomVars, csvVars, navVars, scriptVars>>

CallUpdatePosition(s, dt) ==
    /\ i[s] < MaxObjCalls
    /\ object' = [object EXCEPT ![s] = update_position(@, dt)]
    /\ i' = [i EXCEPT ![s] = @ + 1]
    /\ UNCHANGED <<config, args, central_body, surface, pc, reason>>
    /\ UNCHANGED <<geomVars, csvVars, navVars, scriptVars>>

\* the ax and ay setters
SetAcceleration(s, ax, ay) ==
    /\ i[s] < MaxObjCalls
    /\ object' = [object EXCEPT ![s].ax = ax, ![s].ay = ay]
    /\ i' = [i EXCEPT ![s] = @ + 1]
    /\ UNCHANGED <<config, args, central_body, surface, pc, reason>>
    /\ UNCHANGED <<geomVars, csvVars, navVars, scriptVars>>

\* the caller appends to the lists positions_history hands out
AppendHistory(s) ==
    /\ i[s] < MaxObjCalls
    /\ object' = RecordHistory(object, s)
    /\ i' = [i EXCEPT ![s] = @ + 1]
    /\ UNCHANGED <<config, args, central_body, surface, pc, reason>>
    /\ UNCHANGED <<geomVars, csvVars, navVars, scriptVars>>

NextObj ==
    \E s \in ids :
        \/ \E a \in Accelerations, dt \in Steps :
              CallUpdateVelocity(s, a[1], a[2], dt)
        \/ \E dt \in Steps : CallUpdatePosition(s, dt)
        \/ \E a \in Accelerations : SetAcceleration(s, a[1], a[2])
        \/ AppendHistory(s)

SpecObj == InitObj /\ [][NextObj]_vars

\* ------------------------------------------- gui/components/geometry/*.py
Max(a, b) == IF a >= b THEN a ELSE b

\* the point (cx + r*cos(a), cy + r*sin(a)) at a = k * (2*pi / n), k < n,
\* kept exactly: centre, radius and the angle as a fraction of a turn in
\* lowest terms; with r = 0 it is the centre whatever the angle
PointAt(cx, cy, r, k, n) ==
    IF r = 0
    THEN [cx |-> cx, cy |-> cy, r |-> 0, num |-> 0, den |-> 1]
    ELSE [cx |-> cx, cy |-> cy, r |-> r,
          num |-> k \div GCD(k, n), den |-> n \div GCD(k, n)]

\* circle.py, Circle.center
Circle_center(c) == <<c.x, c.y>>

\* circle.py, Circle.polygon_points
\* fault variant: n is clamped to 1, not 3
Circle_polygon_points_clamp1(c, n, include_close) ==
    LET m == Max(1, n)
        r == Max(0, c.radius)
        pts == [k \in 1..m |->
                  PointAt(Circle_center(c)[1], Circle_center(c)[2], r, k - 1, m)]
    IN  IF include_close THEN Append(pts, pts[1]) ELSE pts
Circle_polygon_points(c, n, include_close) ==
    LET m == Max(3, n)
        r == Max(0, c.radius)
        pts == [k \in 1..m |->
                  PointAt(Circle_center(c)[1], Circle_center(c)[2], r, k - 1, m)]
    IN  IF include_close THEN Append(pts, pts[1]) ELSE pts

\* circle.py, Circle.circle_points
Circle_circle_points(c, n) == Circle_polygon_points(c, n, FALSE)

\* surface.py, Surface.center
Surface_center(c) == <<c.x, c.y>>

\* surface.py, RoundSurface.polygon_points
RoundSurface_polygon_points(c, n, include_close) ==
    LET m == Max(3, n)
        r == Max(0, c.radius)
        pts == [k \in 1..m |->
                  PointAt(Surface_center(c)[1], Surface_center(c)[2], r, k - 1, m)]
    IN  IF include_close THEN Append(pts, pts[1]) ELSE pts

\* sphere.py, Circle.center: a pair, although the class docstring
\* announces (x, y, z)
Sphere_center(c) == <<c.x, c.y>>

\* an angle, as the fraction num/den of pi in lowest terms
Angle(num, den) == [num |-> num \div GCD(num, den), den |-> den \div GCD(num, den)]

\* sphere.py, linspace of Circle.mesh, from 0 to b*pi
linspace(b, n) ==
    IF n = 1 THEN <<Angle(0, 1)>>
    ELSE [k \in 1..n |-> Angle((k - 1) * b, n - 1)]

\* sphere.py, linspace_open of Circle.mesh, from 0 to b*pi, end excluded
linspace_open(b, n) ==
    [k \in 1..Max(1, n) |-> Angle((k - 1) * b, Max(1, n))]

\* sphere.py, Circle.mesh: line 111 unpacks center() into three names
mesh(c, n_phi, n_theta) ==
    LET np == Max(2, n_phi)
        nt == Max(3, n_theta)
        r == Max(0, c.radius)
        ctr == Sphere_center(c)
        phis == linspace(1, np)
        thetas == linspace_open(2, nt)
        Grid(axis) ==
            [ip \in 1..Len(phis) |->
                [it \in 1..Len(thetas) |->
                    [axis |-> axis, centre |-> ctr, r |-> r,
                     phi |-> phis[ip], theta |-> thetas[it]]]]
    IN  IF Len(ctr) # 3
        THEN [raised |-> "ValueError", X |-> <<>>, Y |-> <<>>, Z |-> <<>>]
        ELSE [raised |-> "none", X |-> Grid("x"), Y |-> Grid("y"), Z |-> Grid("z")]

\* central_body.py lines 21-22: the sample counts handed to np.linspace
USamples == 40
VSamples == 20

\* np.linspace(0, b*pi, n), n >= 2: n samples, both ends among them
np_linspace(b, n) == [k \in 1..n |-> Angle((k - 1) * b, n - 1)]

\* central_body.py lines 21-30: the samples and the grids built from them,
\* of shape (len(u), len(v)); an entry is kept as the angles it is taken at
CentralBody_mesh(radius) ==
    LET u == np_linspace(2, USamples)
        v == np_linspace(1, VSamples)
        Grid(axis) ==
            [iu \in 1..Len(u) |->
                [iv \in 1..Len(v) |->
                    [axis |-> axis, r |-> radius, u |-> u[iu], v |-> v[iv],
                     lift |-> IF axis = "z" THEN h(0, 0) ELSE Zero]]]
    IN  [u |-> u, v |-> v, X |-> Grid("x"), Y |-> Grid("y"), Z |-> Grid("z")]

\* the objects the helpers are called on, and the counts they are given
Shapes ==
    { [cls |-> k, x |-> x, y |-> y, radius |-> r, mass |-> 1] :
      k \in {"circle.Circle", "surface.RoundSurface", "sphere.Circle"},
      x \in {0, 1}, y \in {0, 2}, r \in {-1, 0, 1, 2} }
Counts == -1..MaxN

InitGeom ==
    /\ shape \in Shapes
    /\ ret = [fn |-> "none", args |-> <<>>, value |-> <<>>]
    /\ IdleSim /\ IdleCsv /\ IdleNav /\ IdleScript

CallPolygonPoints ==
    /\ shape.cls = "circle.Circle"
    /\ \E n \in Counts, close \in BOOLEAN :
          ret' = [fn |-> "polygon_points", args |-> <<n, close>>,
                  value |-> Circle_polygon_points(shape, n, close)]
    /\ UNCHANGED <<shape, simVars, csvVars, navVars, scriptVars>>

CallCirclePoints ==
    /\ shape.cls = "circle.Circle"
    /\ \E n \in Counts :
          ret' = [fn |-> "circle_points", args |-> <<n>>,
                  value |-> Circle_circle_points(shape, n)]
    /\ UNCHANGED <<shape, simVars, csvVars, navVars, scriptVars>>

CallSurfacePolygonPoints ==
    /\ shape.cls = "surface.RoundSurface"
    /\ \E n \in Counts, close \in BOOLEAN :
          ret' = [fn |-> "polygon_points", args |-> <<n, close>>,
                  value |-> RoundSurface_polygon_points(shape, n, close)]
    /\ UNCHANGED <<shape, simVars, csvVars, navVars, scriptVars>>

CallMesh ==
    /\ shape.cls = "sphere.Circle"
    /\ \E n_phi \in Counts, n_theta \in Counts :
          ret' = [fn |-> "mesh", args |-> <<n_phi, n_theta>>,
                  value |-> mesh(shape, n_phi, n_theta)]
    /\ UNCHANGED <<shape, simVars, csvVars, navVars, scriptVars>>

\* CentralBody(radius, mass), for the mesh its constructor computes
ConstructCentralBody ==
    /\ shape.cls \in {"circle.Circle", "surface.RoundSurface", "sphere.Circle"}
    /\ \E radius \in {0, 1}, mass \in {1} :
          ret' = [fn |-> "CentralBody", args |-> <<radius, mass>>,
                  value |-> CentralBody_mesh(radius)]
    /\ UNCHANGED <<shape, simVars, csvVars, navVars, scriptVars>>

NextGeom ==
    \/ CallPolygonPoints
    \/ CallCirclePoints
    \/ CallSurfacePolygonPoints
    \/ CallMesh
    \/ ConstructCentralBody

SpecGeom == InitGeom /\ [][NextGeom]_vars

\* ------------------------------- geometry/circle.py, sphere.py DynamicCircle
Abs(a) == IF a < 0 THEN -a ELSE a

\* the callables handed to step as `acceleration`; "None" is no callable
AccelerationFns ==
    { [fn |-> "None"], [fn |-> "constant"], [fn |-> "spring"] }

\* the closure step_with_sources builds around the pair a
a_fn(a) == [fn |-> "a_fn", a |-> a]

\* acceleration(self) for a callable
CallAcceleration(f, c) ==
    CASE f.fn = "constant" -> <<1, -1>>
      [] f.fn = "spring"   -> <<-c.x, -c.y>>
      [] f.fn = "a_fn"     -> f.a

Methods == {"symplectic-euler", "rk4"}

\* step(dt, acceleration, method), the same text in both files
\* fault variant: a method other than "symplectic-euler" moves the position
\* with the velocity of before the step
DynamicCircle_step_explicit(c, dt, acceleration, method) ==
    LET a  == IF acceleration.fn # "None"
              THEN CallAcceleration(acceleration, c)
              ELSE <<0, 0>>
        c1 == [c EXCEPT !.vx = @ + a[1] * dt, !.vy = @ + a[2] * dt]
    IN  IF method # "symplectic-euler"
        THEN [c1 EXCEPT !.x = @ + c.vx * dt, !.y = @ + c.vy * dt]
        ELSE [c1 EXCEPT !.x = @ + c1.vx * dt, !.y = @ + c1.vy * dt]
DynamicCircle_step(c, dt, acceleration, method) ==
    LET a  == IF acceleration.fn # "None"
              THEN CallAcceleration(acceleration, c)
              ELSE <<0, 0>>
        m  == IF method # "symplectic-euler" THEN "symplectic-euler" ELSE method
        c1 == [c EXCEPT !.vx = @ + a[1] * dt, !.vy = @ + a[2] * dt]
    IN  [c1 EXCEPT !.x = @ + c1.vx * dt, !.y = @ + c1.vy * dt]

\* sphere.py lines 248-257
acceleration_from_sources(c, sources, G) == <<0, 0>>

\* sphere.py lines 259-285: step with the callable a_fn, which returns the
\* pair acceleration_from_sources gave
step_with_sources(c, sources, dt, G, method) ==
    LET a == acceleration_from_sources(c, sources, G)
    IN  DynamicCircle_step(c, dt, a_fn(a), method)

DynamicCircles ==
    { [cls |-> k, x |-> x, y |-> 0, radius |-> r, mass |-> 3 - r,
       vx |-> vx, vy |-> vy] :
      k \in {"circle.DynamicCircle", "sphere.DynamicCircle"},
      x \in {0, 1}, r \in {1, 2}, vx \in {-1, 0, 1}, vy \in {0, 1} }

SourceLists == { <<>>, <<"a", "b">> }

InitDyn ==
    /\ shape \in DynamicCircles
    /\ ret = [fn |-> "none", args |-> <<>>, value |-> <<>>]
    /\ IdleSim /\ IdleCsv /\ IdleNav /\ IdleScript

\* the circle stays within MaxDyn of the origin, and no faster than MaxDyn
InRange(c) ==
    /\ Abs(c.x) <= MaxDyn /\ Abs(c.y) <= MaxDyn
    /\ Abs(c.vx) <= MaxDyn /\ Abs(c.vy) <= MaxDyn

CallStep ==
    /\ shape.cls \in {"circle.DynamicCircle", "sphere.DynamicCircle"}
    /\ \E dt \in Steps, acceleration \in AccelerationFns, method \in Methods :
          /\ shape' = DynamicCircle_step(shape, dt, acceleration, method)
          /\ ret' = [fn |-> "step", args |-> <<dt, acceleration, method>>,
                     value |-> "None"]
    /\ InRange(shape')
    /\ UNCHANGED <<simVars, csvVars, navVars, scriptVars>>

CallStepWithSources ==
    /\ shape.cls = "sphere.DynamicCircle"
    /\ \E sources \in SourceLists, dt \in Steps, G \in {1},
          method \in Methods :
          /\ shape' = step_with_sources(shape, sources, dt, G, method)
          /\ ret' = [fn |-> "step_with_sources",
                     args |-> <<sources, dt, G, method>>, value |-> "None"]
    /\ InRange(shape')
    /\ UNCHANGED <<simVars, csvVars, navVars, scriptVars>>

NextDyn ==
    \/ CallStep
    \/ CallStepWithSources

SpecDyn == InitDyn /\ [][NextDyn]_vars

\* ---------------------------------------------- simu_machine_learning/parser.py
\* lines 14-21: the loop over range(len(experience) - 1), from index k
\* (1-based here) with the lists built so far
RECURSIVE parse_loop(_, _, _, _)
parse_loop(experience, k, X, Y) ==
    IF k > Len(experience) - 1
    THEN [X |-> X, Y |-> Y]
    ELSE LET x_t   == experience[k][1]
             y_t   == experience[k][2]
             x_tp1 == experience[k + 1][1]
             y_tp1 == experience[k + 1][2]
         IN  parse_loop(experience, k + 1,
                        Append(X, <<x_t, y_t>>),
                        Append(Y, <<x_tp1 - x_t, y_tp1 - y_t>>))

\* fault variant: Y holds the next point itself, not the difference to it
parse_data_next(experience) ==
    LET r == parse_loop(experience, 1, <<>>, <<>>)
    IN  [X |-> r.X,
         Y |-> [k \in DOMAIN r.Y |-> experience[k + 1]]]
parse_data(experience) == parse_loop(experience, 1, <<>>, <<>>)

\* lines 31-37: the loop over the trajectories, from index t
RECURSIVE prepare_loop(_, _, _, _)
prepare_loop(trajectories, t, X_all, Y_all) ==
    IF t > Len(trajectories)
    THEN [X |-> X_all, Y |-> Y_all]
    ELSE LET r == parse_data(trajectories[t])
         IN  prepare_loop(trajectories, t + 1, X_all \o r.X, Y_all \o r.Y)

prepare_dataset(trajectories) == prepare_loop(trajectories, 1, <<>>, <<>>)

\* the points a trajectory is made of, and the trajectories tried
TrajPoints == { <<0, 0>>, <<1, 2>>, <<3, 1>> }

RECURSIVE SeqsUpTo(_, _)
SeqsUpTo(S, n) ==
    IF n = 0 THEN { <<>> }
    ELSE LET shorter == SeqsUpTo(S, n - 1)
         IN  shorter \cup { Append(q, e) : q \in shorter, e \in S }

Trajectories == SeqsUpTo(TrajPoints, MaxTraj)

InitParse ==
    /\ shape = "none"
    /\ ret = [fn |-> "none", args |-> <<>>, value |-> <<>>]
    /\ IdleSim /\ IdleCsv /\ IdleNav /\ IdleScript

\* the parser keeps no state between calls: one call is looked at
CallParseData ==
    /\ ret.fn = "none"
    /\ \E experience \in Trajectories :
          ret' = [fn |-> "parse_data", args |-> <<experience>>,
                  value |-> parse_data(experience)]
    /\ UNCHANGED <<shape, simVars, csvVars, navVars, scriptVars>>

CallPrepareDataset ==
    /\ ret.fn = "none"
    /\ \E trajectories \in SeqsUpTo(Trajectories, 2) :
          ret' = [fn |-> "prepare_dataset", args |-> <<trajectories>>,
                  value |-> prepare_dataset(trajectories)]
    /\ UNCHANGED <<shape, simVars, csvVars, navVars, scriptVars>>

NextParse ==
    \/ CallParseData
    \/ CallPrepareDataset

SpecParse == InitParse /\ [][NextParse]_vars

\* --------------------------------------- tracking/stats/PositionsAnalytics.py
\* lines 17-28: the loop over range(1, len(ballPositions)), from index k
\* (1-based here: the pair is ballPositions[k], ballPositions[k + 1]).
\* timeElapsed = (t2 - t1) / fps is kept as that fraction, so the speed
\* realDistance / timeElapsed is realDistance * fps over (t2 - t1).
RECURSIVE speed_loop(_, _, _, _, _)
speed_loop(self, scaleX, scaleY, k, speeds) ==
    IF k > Len(self.ballPositions) - 1
    THEN [self |-> self, speeds |-> speeds]
    ELSE LET t1 == self.ballPositions[k][1]
             p1 == self.ballPositions[k][2]
             t2 == self.ballPositions[k + 1][1]
             p2 == self.ballPositions[k + 1][2]
             dx == (p2[1] - p1[1]) * scaleX
             dy == (p2[2] - p1[2]) * scaleY
             realDistance == Sqrt(dx * dx + dy * dy)
             positive == (t2 - t1) * self.fps > 0
             speed == IF positive
                      THEN Quot(realDistance * self.fps, t2 - t1)
                      ELSE 0
         IN  speed_loop(
                 [self EXCEPT !.ballPosSpeed =
                      Append(@, <<t2, p2[1], p2[2], speed>>)],
                 scaleX, scaleY, k + 1, Append(speeds, speed))

\* lines 12-29: the object after the call, and the list returned
\* fault variant: ballPosSpeed is emptied when the call starts
calculateSpeed_clears(self) ==
    speed_loop([self EXCEPT !.ballPosSpeed = <<>>],
               Quot(self.realWidth, self.width),
               Quot(self.realHeight, self.height), 1, <<>>)
calculateSpeed(self) ==
    speed_loop(self, Quot(self.realWidth, self.width),
               Quot(self.realHeight, self.height), 1, <<>>)

\* (t, (x, y)) entries, some of them not later than the one before
TimedPositions ==
    { <<0, <<0, 0>>>>, <<1, <<3, 4>>>>, <<1, <<0, 0>>>>, <<3, <<3, 0>>>> }

\* lines 3-10; calls counts the calculateSpeed calls made on the object
PositionsAnalytics(ballPositions, width, height, fps, realWidth, realHeight) ==
    [cls |-> "PositionsAnalytics", ballPositions |-> ballPositions,
     width |-> width, height |-> height, fps |-> fps,
     realWidth |-> realWidth, realHeight |-> realHeight,
     ballPosSpeed |-> <<>>, calls |-> 0]

InitTrack ==
    /\ \E ballPositions \in SeqsUpTo(TimedPositions, MaxBall),
          fps \in {1, 2}, realWidth \in {2, 4} :
          shape = PositionsAnalytics(ballPositions, 2, 1, fps, realWidth, 1)
    /\ ret = [fn |-> "none", args |-> <<>>, value |-> <<>>]
    /\ IdleSim /\ IdleCsv /\ IdleNav /\ IdleScript

CallCalculateSpeed ==
    /\ shape.cls = "PositionsAnalytics"
    /\ shape.calls < MaxSpeedCalls
    /\ LET r == calculateSpeed(shape)
       IN  /\ shape' = [r.self EXCEPT !.calls = @ + 1]
           /\ ret' = [fn |-> "calculateSpeed", args |-> <<>>,
                      value |-> r.speeds]
    /\ UNCHANGED <<simVars, csvVars, navVars, scriptVars>>

\* lines 31-33: the property hands out the list itself
CallGetBallPositionsWithSpeed ==
    /\ shape.cls = "PositionsAnalytics"
    /\ ret' = [fn |-> "getBallPositionsWithSpeed", args |-> <<>>,
               value |-> shape.ballPosSpeed]
    /\ UNCHANGED <<shape, simVars, csvVars, navVars, scriptVars>>

NextTrack ==
    \/ CallCalculateSpeed
    \/ CallGetBallPositionsWithSpeed

SpecTrack == InitTrack /\ [][NextTrack]_vars

\* --------------------------------------------- tracking/stats/DataWriter.py
\* A file is absent or a list of lines.  A line is kept as what splitting
\* it on ";" gives: the header, whose first field is the text "expID", or a
\* row, whose first field is the decimal text of the experiment's expID.
FIRST_LINE == [header |-> TRUE, expID |-> 0, entry |-> <<>>]
RowLine(id, entry) == [header |-> FALSE, expID |-> id, entry |-> entry]

NoFile == [exists |-> FALSE, lines |-> <<>>]
EmptyFile == [exists |-> TRUE, lines |-> <<>>]

\* int(lastLine.split(";")[0]): the number a row starts with; the header's
\* first field is not a number
IntOfFirstField(line) ==
    IF line.header THEN [raised |-> "ValueError", value |-> 0]
    ELSE [raised |-> "none", value |-> line.expID]

\* DataWriter._findLastExpID
_findLastExpID(f) ==
    IF ~f.exists THEN [raised |-> "none", value |-> 0]
    ELSE IF Len(f.lines) <= 1 THEN [raised |-> "none", value |-> 0]
    ELSE IntOfFirstField(f.lines[Len(f.lines)])

\* DataWriter._writeHeader
_writeHeader(f) ==
    IF ~f.exists THEN [exists |-> TRUE, lines |-> <<FIRST_LINE>>]
    ELSE IF Len(f.lines) = 0 THEN [exists |-> TRUE, lines |-> <<FIRST_LINE>>]
    ELSE f

\* lines 26-29: one row per entry, appended in order
RECURSIVE WriteRows(_, _, _)
WriteRows(f, id, data) ==
    IF data = <<>> THEN [f EXCEPT !.exists = TRUE]
    ELSE WriteRows([exists |-> TRUE,
                    lines |-> Append(f.lines, RowLine(id, Head(data)))],
                   id, Tail(data))

\* the rows a tracker may hand over: (temps, x, y, speed)
Entries == {<<1, 0, 0, 0>>, <<2, 3, 4, 5>>}
DataLists == UNION { [1..k -> Entries] : k \in 0..MaxRows }

InitCsv ==
    /\ disk \in {NoFile, EmptyFile}
    /\ expID = 0
    /\ log = <<>>
    /\ IdleSim /\ IdleGeom /\ IdleNav /\ IdleScript

\* DataWriter.appendData
appendData ==
    /\ Len(log) < MaxCalls
    /\ \E data \in DataLists :
          LET lastID == _findLastExpID(disk)
          IN  /\ lastID.raised = "none"
              /\ expID' = lastID.value + 1
              /\ disk' = WriteRows(_writeHeader(disk), lastID.value + 1, data)
              /\ log' = Append(log, [expID |-> lastID.value + 1,
                                     rows |-> Len(data)])
    /\ UNCHANGED <<simVars, geomVars, navVars, scriptVars>>

NextCsv == appendData

SpecCsv == InitCsv /\ [][NextCsv]_vars

\* ----------------------------------------------------- gui/utils/callbacks.py
\* A store value is None or a dict, kept as its set of (key, value) pairs.
None == [none |-> TRUE, dict |-> {}]
Dict(d) == [none |-> FALSE, dict |-> d]

\* (data or {}).get(key, default)
GetOr(data, key, default) ==
    IF data.none \/ ~(\E kv \in data.dict : kv[1] = key) THEN default
    ELSE (CHOOSE kv \in data.dict : kv[1] = key)[2]

Buttons == {"btn-home", "btn-activities", "btn-simulations", "btn-plots"}

\* compute_page_store, given ctx.triggered as the list of triggering ids
\* fault variant: the plots button is mapped to the simulations page
compute_page_store_swapped(triggered) ==
    LET page ==
          IF triggered = <<>> THEN "/"
          ELSE IF triggered[1] = "btn-home" THEN "/"
          ELSE IF triggered[1] = "btn-activities" THEN "/activities"
          ELSE IF triggered[1] = "btn-simulations" THEN "/simulations"
          ELSE IF triggered[1] = "btn-plots" THEN "/simulations"
          ELSE "/"
    IN  Dict({<<"page", page>>})
compute_page_store(triggered) ==
    LET page ==
          IF triggered = <<>> THEN "/"
          ELSE IF triggered[1] = "btn-home" THEN "/"
          ELSE IF triggered[1] = "btn-activities" THEN "/activities"
          ELSE IF triggered[1] = "btn-simulations" THEN "/simulations"
          ELSE IF triggered[1] = "btn-plots" THEN "/plots"
          ELSE "/"
    IN  Dict({<<"page", page>>})

\* render_page: the layout function whose result is returned
render_page(data) ==
    LET page == GetOr(data, "page", "/")
    IN  IF page = "/activities" THEN "activities.layout"
        ELSE IF page = "/simulations" THEN "simulations.layout"
        ELSE IF page = "/plots" THEN "plots.layout"
        ELSE "home.layout"

\* what render_page may be handed
StoreValues ==
    {None, Dict({}), Dict({<<"other", "/plots">>})}
      \cup { Dict({<<"page", q>>}) :
             q \in {"/", "/activities", "/simulations", "/plots", "/unknown"} }

InitNav ==
    /\ n_clicks = [b \in Buttons |-> 0]
    /\ page_store = None
    /\ page_content = "none"
    /\ last = ""
    /\ probe = [data |-> None, layout |-> "none"]
    /\ IdleSim /\ IdleGeom /\ IdleCsv /\ IdleScript

\* the callbacks fired when the page loads: nothing has triggered
InitialCall ==
    /\ page_content = "none"
    /\ page_store' = compute_page_store(<<>>)
    /\ page_content' = render_page(page_store')
    /\ UNCHANGED <<n_clicks, last, probe, simVars, geomVars, csvVars, scriptVars>>

\* a click on a navbar button: compute_page_store, then render_page on the
\* new store
Click(b) ==
    /\ page_content # "none"
    /\ n_clicks[b] < MaxClicks
    /\ n_clicks' = [n_clicks EXCEPT ![b] = @ + 1]
    /\ last' = b
    /\ page_store' = compute_page_store(<<b>>)
    /\ page_content' = render_page(page_store')
    /\ UNCHANGED <<probe, simVars, geomVars, csvVars, scriptVars>>

\* compute_page_store triggered by an input it has no branch for
TriggerUnknown ==
    /\ page_content # "none"
    /\ last' = "btn-new"
    /\ page_store' = compute_page_store(<<"btn-new">>)
    /\ page_content' = render_page(page_store')
    /\ UNCHANGED <<n_clicks, probe, simVars, geomVars, csvVars, scriptVars>>

\* render_page applied to a value by hand
ApplyRenderPage ==
    /\ \E data \in StoreValues :
          probe' = [data |-> data, layout |-> render_page(data)]
    /\ UNCHANGED <<n_clicks, page_store, page_content, last,
                   simVars, geomVars, csvVars, scriptVars>>

NextNav ==
    \/ InitialCall
    \/ \E b \in Buttons : Click(b)
    \/ TriggerUnknown
    \/ ApplyRenderPage

SpecNav == InitNav /\ [][NextNav]_vars

\* ------------------------------------------------------------------ main.py
\* The floats of main.py and mrua.py are kept to 1/Unit: the integer a stands
\* for a/Unit.  Products and quotients are brought back to that scale and
\* truncated; a square root floors.
Unit == 100

Mul(a, b) == Quot(a * b, Unit)
Div(a, b) == Quot(a * Unit, b)

\* the series 1 + t + t^2/2! + ... of exp(t), t >= 0, from term j on
RECURSIVE ExpSeries(_, _, _, _)
ExpSeries(t, j, term, sum) ==
    IF j > 24 \/ term = 0 THEN sum
    ELSE LET next == Quot(term * t, j * Unit)
         IN  ExpSeries(t, j + 1, next, sum + next)

\* np.exp(a) for a <= 0, as 1/exp(-a); below exp(-8) it is 0 at this scale
np_exp(a) ==
    IF -a > 8 * Unit THEN 0
    ELSE Quot(Unit * Unit, ExpSeries(-a, 1, Unit, Unit))

np_dot(a, b) == Quot(a[1] * b[1] + a[2] * b[2] + a[3] * b[3], Unit)

\* w - n * np.dot(w, n)
Tangent(w, n) == [k \in 1..3 |-> w[k] - Mul(n[k], np_dot(w, n))]

\* lines 34-36
main_h(p, x, y) ==
    LET r2 == Mul(x, x) + Mul(y, y)
    IN  Mul(-p.depth, np_exp(Div(-r2, 2 * Mul(p.sigma, p.sigma))))

\* lines 38-42
dh_dx(p, x, y) ==
    Mul(Mul(-p.depth,
            np_exp(Div(-(Mul(x, x) + Mul(y, y)), 2 * Mul(p.sigma, p.sigma)))),
        Div(-x, Mul(p.sigma, p.sigma)))

dh_dy(p, x, y) ==
    Mul(Mul(-p.depth,
            np_exp(Div(-(Mul(x, x) + Mul(y, y)), 2 * Mul(p.sigma, p.sigma)))),
        Div(-y, Mul(p.sigma, p.sigma)))

\* lines 44-49
normal(p, x, y) ==
    LET nx == -dh_dx(p, x, y)
        ny == -dh_dy(p, x, y)
        nz == Unit
        norm == Sqrt(nx * nx + ny * ny + nz * nz)
    IN  <<Div(nx, norm), Div(ny, norm), Div(nz, norm)>>

\* lines 7-27: the module-level values, depth and sigma as lines 21-22
\* derive them
SlideConfigs ==
    { [g |-> Unit, mass_ball |-> Unit, mu |-> mu, dt |-> dt, steps |-> n,
       M_sun |-> Unit, sun_radius |-> sr, k_depth |-> Unit, k_sigma |-> Unit,
       depth |-> Mul(Unit, Unit), sigma |-> Mul(Unit, sr),
       x0 |-> x0, y0 |-> 0, vx0 |-> v[1], vy0 |-> v[2]] :
      mu \in {0, Unit}, dt \in {Unit, Unit \div 2}, n \in 0..MaxSlide,
      sr \in {Unit, 2 * Unit}, x0 \in {0, Unit, 2 * Unit},
      v \in { <<0, 0>>, <<0, (6 * Unit) \div 10>>, <<-Unit, 0>> } }

zeros(n) == [k \in 1..n |-> 0]

\* main.py is loaded: simulate has not been entered
SlideLoaded(p) ==
    [p |-> p, pc |-> "start", i |-> 0, x |-> 0, y |-> 0, v |-> <<0, 0, 0>>,
     xs |-> <<>>, ys |-> <<>>, zs |-> <<>>]

\* lines 53-57
simulate_enter(sl) ==
    LET p == sl.p
        v == <<p.vx0, p.vy0, 0>>
        n == normal(p, p.x0, p.y0)
    IN  [sl EXCEPT !.pc = "loop", !.i = 0, !.x = p.x0, !.y = p.y0,
                   !.v = Tangent(v, n),
                   !.xs = zeros(p.steps), !.ys = zeros(p.steps),
                   !.zs = zeros(p.steps)]

\* line 67: the velocity after the force step of the iteration sl is about
\* to run
simulate_force(sl) ==
    LET p == sl.p
        n == normal(p, sl.x, sl.y)
        g_vec == <<0, 0, -p.g>>
        a_tangent == Tangent(g_vec, n)
        v_tangent == Tangent(sl.v, n)
        a_diss == [k \in 1..3 |-> Mul(-Div(p.mu, p.mass_ball), v_tangent[k])]
        a == [k \in 1..3 |-> a_tangent[k] + a_diss[k]]
    IN  [k \in 1..3 |-> sl.v[k] + Mul(a[k], p.dt)]

\* lines 60-71: one iteration; index i of the arrays is entry i + 1 here
\* fault variant: the position is recorded after it is integrated
simulate_step_records_after(sl) ==
    LET p == sl.p
        v == simulate_force(sl)
        x == sl.x + Mul(v[1], p.dt)
        y == sl.y + Mul(v[2], p.dt)
        n2 == normal(p, x, y)
    IN  [sl EXCEPT !.xs[sl.i + 1] = x, !.ys[sl.i + 1] = y,
                   !.zs[sl.i + 1] = main_h(p, x, y),
                   !.x = x, !.y = y, !.v = Tangent(v, n2), !.i = sl.i + 1]
\* fault variant: the velocity is projected with the normal of before the move
simulate_step_stale(sl) ==
    LET p == sl.p
        v == simulate_force(sl)
        x == sl.x + Mul(v[1], p.dt)
        y == sl.y + Mul(v[2], p.dt)
        n == normal(p, sl.x, sl.y)
    IN  [sl EXCEPT !.xs[sl.i + 1] = sl.x, !.ys[sl.i + 1] = sl.y,
                   !.zs[sl.i + 1] = main_h(p, sl.x, sl.y),
                   !.x = x, !.y = y, !.v = Tangent(v, n), !.i = sl.i + 1]
simulate_step(sl) ==
    LET p == sl.p
        v == simulate_force(sl)
        x == sl.x + Mul(v[1], p.dt)
        y == sl.y + Mul(v[2], p.dt)
        n2 == normal(p, x, y)
    IN  [sl EXCEPT !.xs[sl.i + 1] = sl.x, !.ys[sl.i + 1] = sl.y,
                   !.zs[sl.i + 1] = main_h(p, sl.x, sl.y),
                   !.x = x, !.y = y, !.v = Tangent(v, n2), !.i = sl.i + 1]

InitSlide ==
    /\ slide \in { SlideLoaded(p) : p \in SlideConfigs }
    /\ polar = "none"
    /\ IdleSim /\ IdleGeom /\ IdleCsv /\ IdleNav

SlideEnter ==
    /\ slide.pc = "start"
    /\ slide' = simulate_enter(slide)
    /\ UNCHANGED <<polar, simVars, geomVars, csvVars, navVars>>

SlideIterate ==
    /\ slide.pc = "loop"
    /\ slide.i < slide.p.steps
    /\ slide' = simulate_step(slide)
    /\ UNCHANGED <<polar, simVars, geomVars, csvVars, navVars>>

\* line 72
SlideReturn ==
    /\ slide.pc = "loop"
    /\ ~(slide.i < slide.p.steps)
    /\ slide' = [slide EXCEPT !.pc = "done"]
    /\ UNCHANGED <<polar, simVars, geomVars, csvVars, navVars>>

NextSlide ==
    \/ SlideEnter
    \/ SlideIterate
    \/ SlideReturn

SpecSlide == InitSlide /\ [][NextSlide]_vars

\* ------------------------------------------------------------------ mrua.py
np_pi == Quot(314159 * Unit, 100000)

np_sqrt(a) == Sqrt(a * Unit)

\* lines 5-17: the module-level values, omega0 and n as lines 10 and 17
\* derive them
PolarConfigs ==
    { [G |-> Unit, M |-> Unit, r0 |-> r0, theta0 |-> Quot(np_pi, 2),
       omega0 |-> Mul(Quot(9 * Unit, 10),
                      np_sqrt(Div(Mul(Unit, Unit), Mul(Mul(r0, r0), r0)))),
       alpha |-> 0, radial_speed |-> rs, dt |-> Unit, T |-> T,
       n |-> Quot(T, Unit)] :
      r0 \in {2 * Unit, 5 * Unit}, rs \in {0, 2 * Unit},
      T \in { k * Unit : k \in 1..MaxPolar } }

\* lines 20-25: the arrays, index 0 filled; i is the loop variable, about to
\* take its first value
PolarLoaded(p) ==
    [p |-> p, pc |-> "loop", i |-> 1,
     r |-> [zeros(p.n) EXCEPT ![1] = p.r0],
     theta |-> [zeros(p.n) EXCEPT ![1] = p.theta0],
     omega |-> [zeros(p.n) EXCEPT ![1] = p.omega0]]

\* lines 29-47: vr_new of the iteration pl is about to run; index i - 1 of
\* the arrays is entry i here
mrua_vr_new(pl) ==
    LET p == pl.p
        a_attract == -Div(Mul(p.G, p.M), Mul(pl.r[pl.i], pl.r[pl.i]))
        a_centrip == 2 * Unit
        a_radiale == a_attract + a_centrip
        vr == IF pl.i = 1 THEN p.radial_speed
              ELSE Div(pl.r[pl.i] - pl.r[pl.i - 1], p.dt)
    IN  vr + Mul(a_radiale, p.dt)

\* lines 28-54: one iteration
\* fault variant: the radius moves with the radial speed of before the step
mrua_step_explicit(pl) ==
    LET p == pl.p
        k == pl.i
        vr == IF k = 1 THEN p.radial_speed
              ELSE Div(pl.r[k] - pl.r[k - 1], p.dt)
        omega_i == pl.omega[k] + Mul(p.alpha, p.dt)
    IN  [pl EXCEPT !.r[k + 1] = pl.r[k] + Mul(vr, p.dt),
                   !.omega[k + 1] = omega_i,
                   !.theta[k + 1] = pl.theta[k] + Mul(omega_i, p.dt),
                   !.i = k + 1]
mrua_step(pl) ==
    LET p == pl.p
        k == pl.i
        omega_i == pl.omega[k] + Mul(p.alpha, p.dt)
    IN  [pl EXCEPT !.r[k + 1] = pl.r[k] + Mul(mrua_vr_new(pl), p.dt),
                   !.omega[k + 1] = omega_i,
                   !.theta[k + 1] = pl.theta[k] + Mul(omega_i, p.dt),
                   !.i = k + 1]

\* line 27, the loop goes on.  At r[i-1] = 0 numpy divides by zero and gives
\* -inf; the radii tried stay away from it, and the case is left out.
PolarIterate ==
    /\ polar.pc = "loop"
    /\ polar.i < polar.p.n
    /\ Mul(polar.r[polar.i], polar.r[polar.i]) # 0
    /\ polar' = mrua_step(polar)
    /\ UNCHANGED <<slide, simVars, geomVars, csvVars, navVars>>

\* line 27, range(1, n) is exhausted
PolarDone ==
    /\ polar.pc = "loop"
    /\ ~(polar.i < polar.p.n)
    /\ polar' = [polar EXCEPT !.pc = "done"]
    /\ UNCHANGED <<slide, simVars, geomVars, csvVars, navVars>>

NextPolar ==
    \/ PolarIterate
    \/ PolarDone

\* ---------------------- simulation.py, main.py and mrua.py, side by side
VariantArgs ==
    { a \in ObjArgs : a.y = 0 /\ a.vy = 0 }

InitVariants ==
    /\ config = CHOOSE c \in ModuleConfigs :
                   /\ c.num_steps = MaxSteps /\ c.time_step = 1
                   /\ c.gravity_constant = 1 /\ c.deformation_sigma_scale = 1
    /\ args \in [{1} -> VariantArgs]
    /\ Constructed
    /\ slide \in { SlideLoaded(p) :
                     p \in { q \in SlideConfigs : /\ q.mu = 0 /\ q.dt = Unit
                                                  /\ q.steps = MaxSlide
                                                  /\ q.x0 <= Unit } }
    /\ polar \in { PolarLoaded(p) :
                     p \in { q \in PolarConfigs : /\ q.n = MaxPolar
                                                  /\ q.r0 = 2 * Unit } }
    /\ IdleGeom /\ IdleCsv /\ IdleNav

NextVariants ==
    \/ Next
    \/ NextSlide
    \/ NextPolar

SpecVariants == InitVariants /\ [][NextVariants]_vars

\* ------------------------------------------------------------ properties
LoopOver(s) == pc[s] # "run"
Finished(s) == pc[s] \notin {"run", "plot"}

\* the position at which iteration k (counted from 0) starts: the initial
\* position, then each recorded one
StartPos(s, k) ==
    IF k = 0 THEN <<args[s].x, args[s].y>>
    ELSE <<object[s].xs[k], object[s].ys[k]>>

\* the point p lies strictly closer to the origin than radius
Inside(p, radius) == radius > 0 /\ p[1] * p[1] + p[2] * p[2] < radius * radius

\* some iteration that the loop started found the object inside the body
ContactAtSomeStart(s) ==
    \E k \in 0..Len(object[s].xs) :
        /\ k < config.num_steps
        /\ Inside(StartPos(s, k), central_body[s].radius)

\* C1: the loop runs at most num_steps iterations, the trajectory never has
\* more than num_steps entries (none when num_steps is 0), and once the loop
\* is over it has stopped short of num_steps exactly when some iteration
\* started with the object closer to the origin than the body's radius.
C1_LoopBound ==
    \A s \in ids :
        /\ i[s] <= config.num_steps
        /\ Len(object[s].xs) <= config.num_steps
        /\ (config.num_steps = 0 => object[s].xs = <<>>)
        /\ (LoopOver(s) => ((i[s] < config.num_steps) <=> ContactAtSomeStart(s)))

\* a run that made a step and was then stopped by contact
C1_Witness ==
    \E s \in ids : LoopOver(s) /\ i[s] > 0 /\ i[s] < config.num_steps

\* C2: a run whose object starts inside the central body (with a step budget
\* to spend) records nothing and ends TERMINATED with reason CONTACT.
C2_StartInsideContact ==
    \A s \in ids :
        (/\ Inside(<<args[s].x, args[s].y>>, central_body[s].radius)
         /\ config.num_steps > 0
         /\ Finished(s))
        => (/\ object[s].xs = <<>>
            /\ pc[s] = "TERMINATED"
            /\ reason[s] = "CONTACT")

\* C3: a constructor call never ends anywhere but in TERMINATED, with reason
\* CONTACT or STEP_BUDGET_EXHAUSTED; no exception follows the loop.
C3_RunEndsTerminated ==
    \A s \in ids :
        /\ pc[s] \in {"run", "plot", "TERMINATED"}
        /\ (pc[s] = "TERMINATED" =>
               reason[s] \in {"CONTACT", "STEP_BUDGET_EXHAUSTED"})

\* C4: when no iteration started with the object inside the body, the
\* finished loop has recorded exactly num_steps entries.
C4_FullBudget ==
    \A s \in ids :
        (LoopOver(s) /\ ~ContactAtSomeStart(s))
        => Len(object[s].xs) = config.num_steps

\* a loop that spent a budget of at least two steps without contact
C4_Witness ==
    \E s \in ids :
        /\ LoopOver(s)
        /\ ~ContactAtSomeStart(s)
        /\ config.num_steps >= 2
        /\ Len(object[s].xs) = config.num_steps

\* C5: between iterations the three history lists have the same length, the
\* number of integrated steps, and each z is the surface height h at the x
\* and y of the same entry.
C5_HistoryAligned ==
    \A s \in ids :
        /\ Len(object[s].xs) = i[s]
        /\ Len(object[s].ys) = i[s]
        /\ Len(object[s].zs) = i[s]
        /\ \A k \in 1..Len(object[s].zs) :
               object[s].zs[k] = h(object[s].xs[k], object[s].ys[k])

\* two steps recorded, at different heights
C5_Witness ==
    \E s \in ids :
        /\ Len(object[s].zs) >= 2
        /\ object[s].zs[1] # object[s].zs[2]

\* C6 as stated: every recorded z and the central body's lift is the height
\* computed with the instance's own depth and sigma.
C6_InstanceHeight ==
    \A s \in ids :
        /\ central_body[s].Zlift = Gauss(surface[s].depth, surface[s].sigma, 0)
        /\ \A k \in 1..Len(object[s].zs) :
               object[s].zs[k] =
                   Gauss(surface[s].depth, surface[s].sigma,
                         object[s].xs[k] * object[s].xs[k]
                           + object[s].ys[k] * object[s].ys[k])

\* C6 amended: every recorded z and the central body's lift is the height
\* computed with the module constants surface_depth and surface_sigma,
\* whatever k_depth, k_sigma, body_mass and body_radius the constructor got.
C6_ModuleHeight ==
    \A s \in ids :
        /\ central_body[s].Zlift =
               Gauss(config.surface_depth, config.surface_sigma, 0)
        /\ \A k \in 1..Len(object[s].zs) :
               object[s].zs[k] =
                   Gauss(config.surface_depth, config.surface_sigma,
                         object[s].xs[k] * object[s].xs[k]
                           + object[s].ys[k] * object[s].ys[k])

\* a point off the x axis recorded by an instance whose own depth and sigma
\* both differ from the module's
C6_Witness ==
    \E s \in ids :
        /\ surface[s].depth # config.surface_depth
        /\ surface[s].sigma # config.surface_sigma
        /\ \E k \in 1..Len(object[s].zs) :
               object[s].ys[k] # 0 /\ object[s].xs[k] # 0

\* C7: no simulation step runs on a central body of negative radius.
C7_NegativeRadiusRejected ==
    \A s \in ids :
        central_body[s].radius < 0 => (i[s] = 0 /\ object[s].xs = <<>>)

\* C8: no simulation step runs with a time step that is not positive.
C8_NonPositiveDtRejected ==
    \A s \in ids :
        config.time_step <= 0 => (i[s] = 0 /\ pc[s] # "TERMINATED")

C10_NoSharing ==
    [][\A s \in ids :
          (object'[s] # object[s] \/ i'[s] # i[s] \/ pc'[s] # pc[s])
          => (/\ config' = config
              /\ \A t \in ids \ {s} :
                    /\ object'[t] = object[t]
                    /\ central_body'[t] = central_body[t]
                    /\ surface'[t] = surface[t]
                    /\ i'[t] = i[t])]_vars

\* two instances that have both stepped and hold different histories
C10_Witness ==
    \E s, t \in ids :
        /\ s # t
        /\ Len(object[s].xs) >= 1
        /\ Len(object[t].xs) >= 1
        /\ object[s].xs # object[t].xs

\* instance s completes an iteration in this step
Iterated(s) == i'[s] = i[s] + 1

\* C11: no step changes a central body (radius, mass, mesh lift) or a
\* surface field (depth, sigma, friction).
C11_BodyImmutable ==
    [][central_body' = central_body /\ surface' = surface]_vars

\* a run that has ended after two or more integrated steps
C11_Witness ==
    \E s \in ids : Finished(s) /\ i[s] >= 2

\* C12: started outside the body or on its edge, at rest and with G*M = 0,
\* the object keeps zero velocity and its initial position whatever the
\* friction, contact is never triggered and every recorded point is the
\* initial position.
C12_NoOpPath ==
    \A s \in ids :
        (/\ args[s].vx = 0 /\ args[s].vy = 0
         /\ config.gravity_constant * args[s].body_mass = 0
         /\ ~Inside(<<args[s].x, args[s].y>>, args[s].body_radius))
        => (/\ object[s].vx = 0 /\ object[s].vy = 0
            /\ object[s].x = args[s].x /\ object[s].y = args[s].y
            /\ reason[s] # "CONTACT"
            /\ \A k \in 1..Len(object[s].xs) :
                   object[s].xs[k] = args[s].x /\ object[s].ys[k] = args[s].y)

\* two steps recorded from rest on the very edge of the body, with friction
C12_Witness ==
    \E s \in ids :
        /\ args[s].vx = 0 /\ args[s].vy = 0
        /\ config.gravity_constant * args[s].body_mass = 0
        /\ args[s].body_radius > 0
        /\ args[s].x * args[s].x + args[s].y * args[s].y
             = args[s].body_radius * args[s].body_radius
        /\ args[s].friction # 0
        /\ Len(object[s].xs) >= 2

\* C17: an iteration that starts strictly inside the radius leaves the
\* object (position, velocity, acceleration, history) as it was and ends
\* the loop with CONTACT; one that starts anywhere else, at r = radius
\* included, integrates and records one step.
C17_ContactFirst ==
    [][\A s \in ids :
          (pc[s] = "run" /\ i[s] < config.num_steps
             /\ (pc'[s] # pc[s] \/ i'[s] # i[s] \/ object'[s] # object[s]))
          => IF Inside(<<object[s].x, object[s].y>>, central_body[s].radius)
             THEN /\ object'[s] = object[s]
                  /\ i'[s] = i[s]
                  /\ reason'[s] = "CONTACT"
             ELSE /\ Iterated(s)
                  /\ Len(object'[s].xs) = Len(object[s].xs) + 1
                  /\ pc'[s] = "run"]_vars

\* a run that started at r = radius, was integrated, and later hit the body
C17_Witness ==
    \E s \in ids :
        /\ central_body[s].radius > 0
        /\ args[s].x * args[s].x + args[s].y * args[s].y
             = central_body[s].radius * central_body[s].radius
        /\ Len(object[s].xs) >= 1
        /\ reason[s] = "CONTACT"
        /\ object[s].ax # 0

\* C18: a completed iteration leaves the velocity at v + a*dt and the
\* position at x + v_new*dt, v_new being the velocity just updated.
C18_VelocityThenPosition ==
    [][\A s \in ids :
          Iterated(s) =>
              LET dt == config.time_step
                  o == object[s]
                  n == object'[s]
              IN  /\ n.vx = o.vx + n.ax * dt
                  /\ n.vy = o.vy + n.ay * dt
                  /\ n.x = o.x + n.vx * dt
                  /\ n.y = o.y + n.vy * dt]_vars

\* a recorded step whose acceleration changed the velocity it moved by
C18_Witness ==
    \E s \in ids :
        /\ i[s] >= 1
        /\ config.time_step # 0
        /\ object[s].ax # 0
        /\ object[s].vx # 0

\* C19: a completed iteration sets the acceleration to the gravitational
\* term at the position it started from minus friction times the velocity
\* it started with, and changes the velocity by that acceleration times dt.
C19_DampedAcceleration ==
    [][\A s \in ids :
          Iterated(s) =>
              LET dt == config.time_step
                  o == object[s]
                  n == object'[s]
                  g == GravityAt(o.x, o.y, central_body[s].mass)
              IN  /\ n.ax = g[1] - surface[s].friction * o.vx
                  /\ n.ay = g[2] - surface[s].friction * o.vy
                  /\ n.vx - o.vx = n.ax * dt
                  /\ n.vy - o.vy = n.ay * dt]_vars

\* two steps under friction whose accelerations differ
C19_Witness ==
    \E s \in ids :
        /\ i[s] >= 2
        /\ surface[s].friction # 0
        /\ config.time_step # 0
        /\ object[s].vx # 0
        /\ object[s].ax # -(surface[s].friction * args[s].vx)
        /\ object[s].ax # 0

\* C20: in a completed iteration the gravitational part of the acceleration
\* is -G*M*(x, y)/r^3 when r > 0 and (0, 0) at the origin, where nothing is
\* divided by r^3.
C20_GravityGuard ==
    [][\A s \in ids :
          Iterated(s) =>
              LET o == object[s]
                  n == object'[s]
                  r == Sqrt(o.x * o.x + o.y * o.y)
                  gm == config.gravity_constant * central_body[s].mass
                  ag == <<n.ax + surface[s].friction * o.vx,
                          n.ay + surface[s].friction * o.vy>>
              IN  IF o.x = 0 /\ o.y = 0
                  THEN ag = <<0, 0>>
                  ELSE ag = <<Quot(-(gm * o.x), r * r * r),
                              Quot(-(gm * o.y), r * r * r)>>]_vars

\* a body of radius 0 or less, an object that started at the origin, was
\* integrated there and felt gravity once it had moved away
C20_Witness ==
    \E s \in ids :
        /\ args[s].x = 0 /\ args[s].y = 0
        /\ central_body[s].radius <= 0
        /\ i[s] >= 2
        /\ config.gravity_constant # 0
        /\ object[s].ax # 0
        /\ surface[s].friction = 0

\* the i-th point (from 0) of a regular m-gon around the centre of c
Vertex(c, k, m) ==
    IF c.radius <= 0
    THEN [cx |-> c.x, cy |-> c.y, r |-> 0, num |-> 0, den |-> 1]
    ELSE [cx |-> c.x, cy |-> c.y, r |-> c.radius,
          num |-> k \div GCD(k, m), den |-> m \div GCD(k, m)]

\* C13: polygon_points(n, close) of Circle and of RoundSurface returns
\* max(3, n) points, the i-th at angle i*2*pi/max(3, n) from angle 0, and
\* with close one more point equal to the first; circle_points(n) returns
\* what polygon_points(n, close=False) returns.
C13_PolygonPoints ==
    ret.fn \in {"polygon_points", "circle_points"} =>
        LET n == ret.args[1]
            close == ret.fn = "polygon_points" /\ ret.args[2]
            m == IF n < 3 THEN 3 ELSE n
            pts == ret.value
        IN  /\ Len(pts) = IF close THEN m + 1 ELSE m
            /\ \A k \in 1..m : pts[k] = Vertex(shape, k - 1, m)
            /\ close => pts[m + 1] = pts[1]

\* a closed polygon asked with fewer than 3 samples on a circle of
\* positive radius
C13_Witness ==
    /\ ret.fn = "polygon_points"
    /\ ret.args[1] < 3
    /\ ret.args[2]
    /\ shape.radius > 0
    /\ Len(ret.value) = 4

\* C14: mesh(n_phi, n_theta) returns three grids of n_phi rows of n_theta
\* entries each.
C14_MeshShape ==
    ret.fn = "mesh" =>
        /\ ret.value.raised = "none"
        /\ \A G \in {ret.value.X, ret.value.Y, ret.value.Z} :
              /\ Len(G) = ret.args[1]
              /\ \A k \in 1..Len(G) : Len(G[k]) = ret.args[2]

\* the header line as the file holds it
IsHeader(line) == line.header

\* C15: the k-th appendData call on a file that started absent or empty uses
\* expID k (1 for the first, one more for each call after it, so no two
\* calls share one), its rows carry that expID, and the file holds the
\* header exactly once, as its first line.
C15_ExpIDIncrements ==
    /\ \A k \in 1..Len(log) : log[k].expID = k
    /\ Len(log) > 0 =>
          /\ Len(disk.lines) >= 1
          /\ IsHeader(disk.lines[1])
          /\ \A j \in 2..Len(disk.lines) : ~IsHeader(disk.lines[j])
    /\ \A j \in 2..Len(disk.lines) :
          \E k \in 1..Len(log) : disk.lines[j].expID = log[k].expID

\* the page each button stands for, and the layout of each page
PathOfButton ==
    [b \in Buttons |->
        CASE b = "btn-home" -> "/"
          [] b = "btn-activities" -> "/activities"
          [] b = "btn-simulations" -> "/simulations"
          [] b = "btn-plots" -> "/plots"]
Pages == {"/", "/activities", "/simulations", "/plots"}
LayoutOfPage ==
    [q \in Pages |->
        CASE q = "/" -> "home.layout"
          [] q = "/activities" -> "activities.layout"
          [] q = "/simulations" -> "simulations.layout"
          [] q = "/plots" -> "plots.layout"]

C27_OnlyLastInside ==
    \A s \in ids :
        \A k \in 1..(Len(object[s].xs) - 1) :
            ~Inside(<<object[s].xs[k], object[s].ys[k]>>, central_body[s].radius)

\* a run stopped by contact whose last recorded point, after an earlier one,
\* is inside the body
C27_Witness ==
    \E s \in ids :
        /\ reason[s] = "CONTACT"
        /\ Len(object[s].xs) >= 2
        /\ Inside(<<object[s].xs[Len(object[s].xs)],
                    object[s].ys[Len(object[s].ys)]>>, central_body[s].radius)

\* the object a constructor call starts from, integrated k times
RECURSIVE StepsFromStart(_, _)
StepsFromStart(s, k) ==
    IF k = 0
    THEN MovingObject(args[s].x, args[s].y, args[s].vx, args[s].vy)
    ELSE Integrate(StepsFromStart(s, k - 1), central_body[s], surface[s])

\* C28: the k-th recorded entry is the position after exactly k integration
\* steps from the initial position, which is itself never recorded, and
\* whenever something is recorded the object stands at the last entry.
C28_HistoryAfterStep ==
    \A s \in ids :
        /\ \A k \in 1..Len(object[s].xs) :
              /\ object[s].xs[k] = StepsFromStart(s, k).x
              /\ object[s].ys[k] = StepsFromStart(s, k).y
        /\ Len(object[s].xs) >= 1 =>
              /\ object[s].x = object[s].xs[Len(object[s].xs)]
              /\ object[s].y = object[s].ys[Len(object[s].ys)]

\* two entries recorded, neither of them the initial position
C28_Witness ==
    \E s \in ids :
        /\ Len(object[s].xs) >= 2
        /\ <<object[s].xs[1], object[s].ys[1]>> # <<args[s].x, args[s].y>>
        /\ <<object[s].xs[2], object[s].ys[2]>> # <<args[s].x, args[s].y>>
        /\ object[s].xs[1] # object[s].xs[2]

\* C29: with a central body of radius 0 or less the loop never ends by
\* contact: it ends by exhausting the budget, with num_steps entries.
C29_NoContactWithoutRadius ==
    \A s \in ids :
        central_body[s].radius <= 0 =>
            /\ reason[s] # "CONTACT"
            /\ LoopOver(s) =>
                  /\ reason[s] = "STEP_BUDGET_EXHAUSTED"
                  /\ Len(object[s].xs) = config.num_steps

\* a run around a body of radius 0 that passed through the origin and spent
\* its whole budget
C29_Witness ==
    \E s \in ids :
        /\ central_body[s].radius = 0
        /\ LoopOver(s)
        /\ config.num_steps >= 2
        /\ \E k \in 1..Len(object[s].xs) :
              object[s].xs[k] = 0 /\ object[s].ys[k] = 0
        /\ Len(object[s].xs) = config.num_steps

\* C24: update_velocity changes nothing but (vx, vy) and update_position
\* nothing but (x, y): the histories, the stored acceleration and every other
\* field of the object are as they were before the call.
C24_IntegratorFrame ==
    [][\A s \in ids :
        /\ (\E a \in Accelerations, dt \in Steps :
               CallUpdateVelocity(s, a[1], a[2], dt))
           => object'[s] = [object[s] EXCEPT !.vx = object'[s].vx,
                                             !.vy = object'[s].vy]
        /\ (\E dt \in Steps : CallUpdatePosition(s, dt))
           => object'[s] = [object[s] EXCEPT !.x = object'[s].x,
                                             !.y = object'[s].y]]_vars

\* an object with a recorded history and a stored acceleration that both
\* methods have moved
C24_Witness ==
    \E s \in ids :
        /\ pc[s] = "api"
        /\ Len(object[s].xs) >= 1
        /\ object[s].ax # 0
        /\ object[s].vx # args[s].vx
        /\ object[s].x # object[s].xs[Len(object[s].xs)]

ParsedRight(experience, r) ==
    LET n == Len(experience)
    IN  /\ Len(r.X) = Max(0, n - 1)
        /\ Len(r.Y) = Max(0, n - 1)
        /\ \A k \in 1..Len(r.X) :
              /\ r.X[k] = experience[k]
              /\ r.Y[k] = <<experience[k + 1][1] - experience[k][1],
                            experience[k + 1][2] - experience[k][2]>>
              /\ <<r.X[k][1] + r.Y[k][1], r.X[k][2] + r.Y[k][2]>>
                   = experience[k + 1]

\* the per-trajectory results of parse_data, one after the other
RECURSIVE Concatenated(_, _)
Concatenated(trajectories, field) ==
    IF trajectories = <<>> THEN <<>>
    ELSE parse_data(Head(trajectories))[field]
           \o Concatenated(Tail(trajectories), field)

RECURSIVE SumLengthsMinusOne(_)
SumLengthsMinusOne(trajectories) ==
    IF trajectories = <<>> THEN 0
    ELSE (Len(Head(trajectories)) - 1) + SumLengthsMinusOne(Tail(trajectories))

RECURSIVE SumPairs(_)
SumPairs(trajectories) ==
    IF trajectories = <<>> THEN 0
    ELSE Max(0, Len(Head(trajectories)) - 1) + SumPairs(Tail(trajectories))

\* C26 as stated: parse_data returns the n-1 points and differences, and
\* prepare_dataset returns their concatenation, of sum of (length - 1) rows.
C26_RowsLengthMinusOne ==
    /\ ret.fn = "parse_data" => ParsedRight(ret.args[1], ret.value)
    /\ ret.fn = "prepare_dataset" =>
          /\ ret.value.X = Concatenated(ret.args[1], "X")
          /\ ret.value.Y = Concatenated(ret.args[1], "Y")
          /\ Len(ret.value.X) = SumLengthsMinusOne(ret.args[1])
          /\ Len(ret.value.Y) = SumLengthsMinusOne(ret.args[1])

\* C26, amended: an empty trajectory gives no row, so the rows number the sum
\* of max(0, length - 1).
C26_RowsPairs ==
    /\ ret.fn = "parse_data" => ParsedRight(ret.args[1], ret.value)
    /\ ret.fn = "prepare_dataset" =>
          /\ ret.value.X = Concatenated(ret.args[1], "X")
          /\ ret.value.Y = Concatenated(ret.args[1], "Y")
          /\ Len(ret.value.X) = SumPairs(ret.args[1])
          /\ Len(ret.value.Y) = SumPairs(ret.args[1])

\* a dataset made of an empty trajectory and one of three points
C26_Witness ==
    /\ ret.fn = "prepare_dataset"
    /\ Len(ret.args[1]) = 2
    /\ Len(ret.args[1][1]) = 0
    /\ Len(ret.args[1][2]) = 3
    /\ Len(ret.value.X) = 2
    /\ ret.value.Y[1] # ret.value.Y[2]

\* what calculateSpeed is said to return on the n positions of the object:
\* one speed per consecutive pair, in order, 0 where t2 - t1 is not positive
SpeedsRight(self, speeds) ==
    LET n == Len(self.ballPositions)
    IN  /\ Len(speeds) = Max(0, n - 1)
        /\ \A k \in 1..Len(speeds) :
              LET a == self.ballPositions[k]
                  b == self.ballPositions[k + 1]
                  dx == (b[2][1] - a[2][1]) * Quot(self.realWidth, self.width)
                  dy == (b[2][2] - a[2][2]) * Quot(self.realHeight, self.height)
              IN  /\ b[1] - a[1] <= 0 => speeds[k] = 0
                  /\ b[1] - a[1] > 0 =>
                        speeds[k] = Quot(Sqrt(dx * dx + dy * dy) * self.fps,
                                         b[1] - a[1])

SameAngle(a, b) ==
    \/ a = b
    \/ {a, b} = {Angle(0, 1), Angle(2, 1)}

\* samples from 0 to pi, both ends among them
ClosedPhi(phis) ==
    /\ Len(phis) >= 2
    /\ phis[1] = Angle(0, 1)
    /\ phis[Len(phis)] = Angle(1, 1)

\* samples of [0, 2*pi) with no seam: none is 2*pi, no two are the same angle
HalfOpenTheta(thetas) ==
    /\ \A k \in DOMAIN thetas : thetas[k] # Angle(2, 1)
    /\ \A j, k \in DOMAIN thetas : j # k => ~SameAngle(thetas[j], thetas[k])

\* C23: the central body's mesh and the sphere mesh both sample phi over
\* [0, pi] with both ends and theta over [0, 2*pi) without the end, so no
\* azimuth sample is 2*pi and no two azimuth samples are the same angle.
C23_NoSeamColumn ==
    /\ ret.fn = "CentralBody" =>
          /\ ClosedPhi(ret.value.v)
          /\ HalfOpenTheta(ret.value.u)
    /\ ret.fn = "mesh" =>
          /\ ret.value.raised = "none"
          /\ ClosedPhi([ip \in DOMAIN ret.value.X |-> ret.value.X[ip][1].phi])
          /\ HalfOpenTheta([it \in DOMAIN ret.value.X[1] |->
                               ret.value.X[1][it].theta])

\* C22: in main.py the velocity is tangent to the surface after each
\* re-projection, the one before the loop and the one that ends each
\* iteration: its product with the normal at the current position is 0 to
\* within 3/Unit, and so it is when the next force step starts.
C22_VelocityTangent ==
    slide.pc \in {"loop", "done"} =>
        Abs(np_dot(slide.v, normal(slide.p, slide.x, slide.y))) <= 3

\* two iterations done, on a slope, with a velocity that has a vertical part
C22_Witness ==
    /\ slide.pc \in {"loop", "done"}
    /\ slide.i >= 2
    /\ normal(slide.p, slide.x, slide.y)[1] # 0
    /\ slide.v[1] # 0
    /\ Abs(slide.v[3]) > 3

\* (x, y) is closer to the origin than the sun's radius
SlideInside(p, x, y) == Sqrt(x * x + y * y) < p.sun_radius

\* simulation.py: entry k is the position after k steps, and no step was
\* taken from inside the body
FreeOrbitSteps(s) ==
    /\ \A k \in 1..Len(object[s].xs) :
          /\ object[s].xs[k] = StepsFromStart(s, k).x
          /\ object[s].ys[k] = StepsFromStart(s, k).y
    /\ \A k \in 1..(Len(object[s].xs) - 1) :
          ~Inside(<<object[s].xs[k], object[s].ys[k]>>, central_body[s].radius)
    /\ ~Inside(<<args[s].x, args[s].y>>, central_body[s].radius)
          \/ Len(object[s].xs) = 0

\* C21 as stated: in each of the three variants a step is taken only from
\* outside the central body, and what a step records is the position it
\* has integrated, once per step.
C21_SameStepAlgorithm ==
    [][/\ \A s \in ids :
            Iterated(s) =>
                /\ ~Inside(<<object[s].x, object[s].y>>, central_body[s].radius)
                /\ Len(object'[s].xs) = Len(object[s].xs) + 1
                /\ object'[s].xs[Len(object'[s].xs)] = object'[s].x
                /\ object'[s].ys[Len(object'[s].ys)] = object'[s].y
       /\ SlideIterate =>
            /\ ~SlideInside(slide.p, slide.x, slide.y)
            /\ slide'.xs[slide'.i] = slide'.x
            /\ slide'.ys[slide'.i] = slide'.y
       /\ PolarIterate =>
            polar'.r[polar'.i]
              = polar.r[polar.i] + Mul(mrua_vr_new(polar), polar.p.dt)]_vars

\* what the three loops have recorded and when they stop
VariantsRecord ==
    /\ \A s \in ids : FreeOrbitSteps(s)
    /\ slide.pc # "start" =>
          /\ slide.i >= 1 =>
                slide.xs[1] = slide.p.x0 /\ slide.ys[1] = slide.p.y0
          /\ slide.pc = "done" => slide.i = slide.p.steps
    /\ polar.r[1] = polar.p.r0
    /\ polar.pc = "done" => polar.i = polar.p.n

\* the velocity is integrated first and the position moves with the new one;
\* main.py records the position the iteration starts from
VelocityThenPosition ==
    /\ \A s \in ids :
          Iterated(s) =>
              /\ object'[s].x = object[s].x + object'[s].vx * config.time_step
              /\ object'[s].y = object[s].y + object'[s].vy * config.time_step
    /\ SlideIterate =>
          /\ slide'.x = slide.x + Mul(simulate_force(slide)[1], slide.p.dt)
          /\ slide'.y = slide.y + Mul(simulate_force(slide)[2], slide.p.dt)
          /\ slide'.xs[slide'.i] = slide.x
          /\ slide'.ys[slide'.i] = slide.y
    /\ PolarIterate =>
          polar'.r[polar'.i]
            = polar.r[polar.i] + Mul(mrua_vr_new(polar), polar.p.dt)

\* C21, amended: the three variants share the order of integration, velocity
\* first and then the position with the new velocity.  Only simulation.py
\* checks contact and records the position after each step; main.py runs
\* all its steps and records the position each iteration starts from, the
\* initial one first; mrua.py runs all its iterations after storing r0.
C21_SharedOrder == []VariantsRecord /\ [][VelocityThenPosition]_vars

\* simulation.py stopped by contact, main.py has stepped twice from inside
\* the sun, mrua.py has stepped twice
C21_Witness ==
    /\ \E s \in ids : reason[s] = "CONTACT" /\ Len(object[s].xs) >= 1
    /\ slide.pc # "start"
    /\ slide.i >= 2
    /\ SlideInside(slide.p, slide.xs[1], slide.ys[1])
    /\ SlideInside(slide.p, slide.xs[2], slide.ys[2])
    /\ slide.xs[2] # slide.xs[1]
    /\ polar.i >= 3
    /\ polar.r[2] # polar.r[1]

====
